---- MODULE Spec2Model ----
(***************************************************************************)
(* Service-request intake and triage: the workflow engine                  *)
(* (advance_workflow), the keyword classifier (classify_request) and the   *)
(* dashboard's session store that calls both.                              *)
(*                                                                         *)
(* Python strings are TLA+ strings; Len, \o and SubSeq act on them         *)
(* character by character.                                                 *)
(***************************************************************************)
EXTENDS Integers, Sequences, FiniteSets, TLC

VARIABLES
    initial_status,   \* workflow engine: the status value it started from
    status,           \* workflow engine: the status value being advanced
    prev_status,      \* workflow engine: the argument of the last call
    wf_calls,         \* workflow engine: number of calls made so far
    summary,          \* classifier: the summary argument
    description,      \* classifier: the description argument
    channel,          \* classifier: the channel argument of the last call
    classification,   \* classifier: the dict returned by the last call
    previous,         \* classifier: the dict returned by the call before it
    prev_channel,     \* classifier: the channel argument of the call before it
    cl_pc,            \* classifier: "input", "classified", or how the second
                      \* call was made: "reclassified", "recased", "resplit",
                      \* "dashboard"
    requests,         \* st.session_state.requests
    ai_insights,      \* st.session_state.ai_insights
    ai_routed_today,  \* st.session_state.ai_routed_today
    form_message,     \* the message the form shows in the current script run
    clicks,           \* history: Advance Workflow clicks per store position
    classify_calls,   \* history: calls of the dashboard's classify_request
    submission        \* history: <<summary, description>> of the Submit Request
                      \* click of the current script run, <<>> without one

vars == <<initial_status, status, prev_status, wf_calls,
          summary, description, channel, classification, previous, prev_channel,
          cl_pc,
          requests, ai_insights, ai_routed_today, form_message, clicks,
          classify_calls, submission>>

wf_vars == <<initial_status, status, prev_status, wf_calls>>
cl_vars == <<summary, description, channel, classification, previous,
             prev_channel, cl_pc>>
ui_vars == <<requests, ai_insights, ai_routed_today, form_message, clicks,
             classify_calls, submission>>

(***************************************************************************)
(* Bounds of the model.                                                    *)
(***************************************************************************)
MaxCalls == 7
MaxDescriptionPhrases == 1
MaxClicks == 6
MaxTouched == 1
MaxCreated == 1

(***************************************************************************)
(* Workflow engine.                                                        *)
(***************************************************************************)
WORKFLOW_STATES == <<"NEW", "TRIAGE", "ASSIGNED", "IN_PROGRESS", "RESOLVED", "CLOSED">>

\* list.index(x): the first position holding x; 0 stands for ValueError.
index(list, x) ==
    IF \E i \in 1..Len(list) : list[i] = x
    THEN CHOOSE i \in 1..Len(list) : list[i] = x /\ \A j \in 1..(i - 1) : list[j] # x
    ELSE 0

\* A slip that treats the list as a cycle and forgets the terminal state.
advance_workflow_cyclic(current_status) ==
    LET current_index == index(WORKFLOW_STATES, current_status)
    IN  IF current_index = 0 THEN "NEW"
        ELSE WORKFLOW_STATES[(current_index % Len(WORKFLOW_STATES)) + 1]

\* A slip that steps two positions forward.
advance_workflow_skip(current_status) ==
    IF current_status = "CLOSED" THEN "CLOSED"
    ELSE LET current_index == index(WORKFLOW_STATES, current_status)
         IN  IF current_index = 0 THEN "NEW"
             ELSE IF current_index + 1 < Len(WORKFLOW_STATES)
                  THEN WORKFLOW_STATES[current_index + 2]
                  ELSE "CLOSED"

\* A slip that hands an unknown status back instead of resetting it.
advance_workflow_passthrough(current_status) ==
    IF current_status = "CLOSED" THEN "CLOSED"
    ELSE LET current_index == index(WORKFLOW_STATES, current_status)
         IN  IF current_index = 0 THEN current_status
             ELSE IF current_index < Len(WORKFLOW_STATES)
                  THEN WORKFLOW_STATES[current_index + 1]
                  ELSE "CLOSED"

\* A slip that never leaves RESOLVED.
advance_workflow_stalls(current_status) ==
    IF current_status = "CLOSED" THEN "CLOSED"
    ELSE LET current_index == index(WORKFLOW_STATES, current_status)
         IN  IF current_index = 0 THEN "NEW"
             ELSE IF current_index + 1 < Len(WORKFLOW_STATES)
                  THEN WORKFLOW_STATES[current_index + 1]
                  ELSE current_status

\* Python indexes from 0, the model from 1: current_index here is Python's
\* current_index + 1, so "current_index < len - 1" reads current_index < Len.
advance_workflow(current_status) ==
    IF current_status = "CLOSED" THEN "CLOSED"
    ELSE LET current_index == index(WORKFLOW_STATES, current_status)
         IN  IF current_index = 0 THEN "NEW"
             ELSE IF current_index < Len(WORKFLOW_STATES)
                  THEN WORKFLOW_STATES[current_index + 1]
                  ELSE "CLOSED"

(***************************************************************************)
(* Classifier: string helpers.                                             *)
(***************************************************************************)
UpperCase == "ABCDEFGHIJKLMNOPQRSTUVWXYZ"
LowerCase == "abcdefghijklmnopqrstuvwxyz"

\* str.lower() on one character: A-Z map to a-z, everything else is kept.
LowerTable ==
    [c \in {SubSeq(UpperCase, i, i) : i \in 1..Len(UpperCase)} |->
        LET i == CHOOSE j \in 1..Len(UpperCase) : SubSeq(UpperCase, j, j) = c
        IN  SubSeq(LowerCase, i, i)]

LowerChar(c) == IF c \in DOMAIN LowerTable THEN LowerTable[c] ELSE c

\* str.lower(): every character lowered, in place.  The string is lowered
\* half by half, which keeps the recursion shallow on long texts.
RECURSIVE lower(_)
lower(s) ==
    IF Len(s) = 0 THEN ""
    ELSE IF Len(s) = 1 THEN LowerChar(s)
    ELSE LET half == Len(s) \div 2
         IN  lower(SubSeq(s, 1, half)) \o lower(SubSeq(s, half + 1, Len(s)))

\* Python's "kw in text": kw occurs in text as a contiguous substring.
Contains(kw, text) ==
    \E i \in 1..(Len(text) - Len(kw) + 1) : SubSeq(text, i, i + Len(kw) - 1) = kw

\* sep.join(list)
RECURSIVE join(_, _)
join(sep, list) ==
    IF list = <<>> THEN ""
    ELSE IF Len(list) = 1 THEN list[1]
    ELSE list[1] \o sep \o join(sep, Tail(list))

\* A slip that forgets the slice.
Slice_whole(list, n) == list

\* list[:n]
Slice(list, n) == SubSeq(list, 1, IF Len(list) < n THEN Len(list) ELSE n)

(***************************************************************************)
(* Classifier: rule tables.  A Python dict iterates in insertion order, so *)
(* each table is a sequence.                                               *)
(***************************************************************************)
\* A slip that lists the Medium tier before the High tier.
priority_keywords_medium_first ==
    << [level |-> "Medium",
        keywords |-> <<"broken", "not working", "issue", "problem", "fault">>],
       [level |-> "High",
        keywords |-> <<"urgent", "emergency", "hazard", "safety", "dangerous">>] >>

\* A slip that lists 'urgent' twice in the High tier.
priority_keywords_repeated ==
    << [level |-> "High",
        keywords |-> <<"urgent", "emergency", "hazard", "safety", "dangerous", "urgent">>],
       [level |-> "Medium",
        keywords |-> <<"broken", "not working", "issue", "problem", "fault">>] >>

priority_keywords ==
    << [level |-> "High",
        keywords |-> <<"urgent", "emergency", "hazard", "safety", "dangerous">>],
       [level |-> "Medium",
        keywords |-> <<"broken", "not working", "issue", "problem", "fault">>] >>

\* A slip that lists IT before Public Works and Licensing.
department_keywords_it_first ==
    << [dept |-> "IT",
        keywords |-> <<"email", "vpn", "laptop", "password", "computer", "network",
                       "software">>,
        reason |-> "Technology and IT support keywords detected"],
       [dept |-> "Public Works",
        keywords |-> <<"pothole", "streetlight", "sidewalk", "trash", "infrastructure",
                       "road", "street">>,
        reason |-> "Infrastructure and public works keywords detected"],
       [dept |-> "Licensing",
        keywords |-> <<"permit", "license", "zoning", "business permit", "application">>,
        reason |-> "Permit and licensing keywords detected"],
       [dept |-> "HR",
        keywords |-> <<"payroll", "benefits", "vacation", "insurance", "employee", "hr">>,
        reason |-> "Human resources and employee services keywords detected"] >>

department_keywords ==
    << [dept |-> "Public Works",
        keywords |-> <<"pothole", "streetlight", "sidewalk", "trash", "infrastructure",
                       "road", "street">>,
        reason |-> "Infrastructure and public works keywords detected"],
       [dept |-> "Licensing",
        keywords |-> <<"permit", "license", "zoning", "business permit", "application">>,
        reason |-> "Permit and licensing keywords detected"],
       [dept |-> "IT",
        keywords |-> <<"email", "vpn", "laptop", "password", "computer", "network",
                       "software">>,
        reason |-> "Technology and IT support keywords detected"],
       [dept |-> "HR",
        keywords |-> <<"payroll", "benefits", "vacation", "insurance", "employee", "hr">>,
        reason |-> "Human resources and employee services keywords detected"] >>

(***************************************************************************)
(* Classifier: the passes of classify_request.                             *)
(***************************************************************************)
\* A slip that joins summary and description without the space.
normalize_glued(s, d) == lower(s \o d)

\* A slip that matches the text as it was typed.
normalize_as_typed(s, d) == s \o " " \o d

\* text = f"{summary} {description}".lower()
normalize(s, d) == lower(s \o " " \o d)

\* [kw for kw in keywords if kw in text]
found_keywords(keywords, text) ==
    SelectSeq(keywords, LAMBDA kw : Contains(kw, text))

\* for ... in table.items(): found_keywords = [...]; if found_keywords: ...; break
\* The loop from entry i on.  It stops at the first entry with a match: .at is
\* that entry's position (0 when the loop runs to the end) and .found its
\* found_keywords.
RECURSIVE first_match_from(_, _, _)
first_match_from(table, text, i) ==
    IF i > Len(table) THEN [at |-> 0, found |-> <<>>]
    ELSE LET found == found_keywords(table[i].keywords, text)
         IN  IF found # <<>> THEN [at |-> i, found |-> found]
             ELSE first_match_from(table, text, i + 1)

first_match(table, text) == first_match_from(table, text, 1)

\* A slip that forgets the break: the Medium matches are collected as well
\* when the High tier has won.
priority_pass_without_break(text) ==
    LET m == first_match(priority_keywords, text)
        later == IF m.at = 1
                 THEN found_keywords(priority_keywords[2].keywords, text)
                 ELSE <<>>
        reason == IF m.at = 0 THEN ""
                  ELSE "Detected " \o lower(priority_keywords[m.at].level)
                       \o " priority keywords: " \o join(", ", Slice(m.found, 3))
    IN  [priority |-> IF m.at = 0 THEN "Low" ELSE priority_keywords[m.at].level,
         found |-> m.found \o later,
         priority_reason |->
             IF reason = ""
             THEN "No high-priority indicators found. Classified as Low priority."
             ELSE reason]

\* The priority loop and the "if not priority_reason" after it.
priority_pass(text) ==
    LET m == first_match(priority_keywords, text)
        reason == IF m.at = 0 THEN ""
                  ELSE "Detected " \o lower(priority_keywords[m.at].level)
                       \o " priority keywords: " \o join(", ", Slice(m.found, 3))
    IN  [priority |-> IF m.at = 0 THEN "Low" ELSE priority_keywords[m.at].level,
         found |-> m.found,
         priority_reason |->
             IF reason = ""
             THEN "No high-priority indicators found. Classified as Low priority."
             ELSE reason]

\* The department loop.
department_pass(text) ==
    LET m == first_match(department_keywords, text)
    IN  [department |-> IF m.at = 0 THEN "General Services"
                        ELSE department_keywords[m.at].dept,
         found |-> m.found,
         department_reason |-> IF m.at = 0 THEN "" ELSE department_keywords[m.at].reason]

\* A slip that leaves the initial default 'General' in the else branch.
category_pass_default(department, department_reason) ==
    IF department = "Public Works"
    THEN [category |-> "Infrastructure", department_reason |-> department_reason]
    ELSE IF department = "Licensing"
    THEN [category |-> "Permits & Licenses", department_reason |-> department_reason]
    ELSE IF department = "IT"
    THEN [category |-> "Technology", department_reason |-> department_reason]
    ELSE IF department = "HR"
    THEN [category |-> "Human Resources", department_reason |-> department_reason]
    ELSE [category |-> "General", department_reason |-> department_reason]

\* The if/elif chain that derives category (and the fallback reason).
category_pass(department, department_reason) ==
    IF department = "Public Works"
    THEN [category |-> "Infrastructure", department_reason |-> department_reason]
    ELSE IF department = "Licensing"
    THEN [category |-> "Permits & Licenses", department_reason |-> department_reason]
    ELSE IF department = "IT"
    THEN [category |-> "Technology", department_reason |-> department_reason]
    ELSE IF department = "HR"
    THEN [category |-> "Human Resources", department_reason |-> department_reason]
    ELSE [category |-> "General Services",
          department_reason |->
              "No specific department keywords found. Routed to General Services."]

min(a, b) == IF a < b THEN a ELSE b

\* A slip that drops the min(95, ...) cap.
confidence_uncapped(total_keywords) ==
    IF total_keywords >= 3 THEN 85 + (total_keywords - 3) * 2
    ELSE IF total_keywords >= 2 THEN 75 + (total_keywords - 2) * 5
    ELSE IF total_keywords >= 1 THEN 65 + (total_keywords - 1) * 5
    ELSE 60

\* A slip that makes the curve smooth: 5 points per keyword below three.
confidence_smooth(total_keywords) ==
    IF total_keywords >= 3 THEN min(95, 85 + (total_keywords - 3) * 2)
    ELSE IF total_keywords >= 2 THEN 70 + (total_keywords - 2) * 5
    ELSE IF total_keywords >= 1 THEN 65 + (total_keywords - 1) * 5
    ELSE 60

\* A slip that starts an unmatched request at 65.
confidence_floor65(total_keywords) ==
    IF total_keywords >= 3 THEN min(95, 85 + (total_keywords - 3) * 2)
    ELSE IF total_keywords >= 2 THEN 75 + (total_keywords - 2) * 5
    ELSE IF total_keywords >= 1 THEN 65 + (total_keywords - 1) * 5
    ELSE 65

\* A slip that starts the third step at 70.
confidence_dip(total_keywords) ==
    IF total_keywords >= 3 THEN min(95, 70 + (total_keywords - 3) * 2)
    ELSE IF total_keywords >= 2 THEN 75 + (total_keywords - 2) * 5
    ELSE IF total_keywords >= 1 THEN 65 + (total_keywords - 1) * 5
    ELSE 60

\* confidence from total_keywords = len(keywords_detected), before set().
confidence_of(total_keywords) ==
    IF total_keywords >= 3 THEN min(95, 85 + (total_keywords - 3) * 2)
    ELSE IF total_keywords >= 2 THEN 75 + (total_keywords - 2) * 5
    ELSE IF total_keywords >= 1 THEN 65 + (total_keywords - 1) * 5
    ELSE 60

\* The set of elements of a list: set(keywords_detected).
set(list) == {list[i] : i \in DOMAIN list}

\* The returned dict, given what the two loops produced: p.found \o d.found is
\* keywords_detected as the two extend() calls accumulate it.  list(set(...))
\* has no defined order, so the returned keywords_detected is kept as the set.
result_of(p, d) ==
    LET c == category_pass(d.department, d.department_reason)
    IN  [priority |-> p.priority,
         category |-> c.category,
         department |-> d.department,
         confidence |-> confidence_of(Len(p.found \o d.found)),
         keywords_detected |-> set(p.found \o d.found),
         department_reason |-> c.department_reason,
         priority_reason |-> p.priority_reason]

\* keywords_detected as the two extend() calls leave it, before set().
keywords_accumulated(text) ==
    priority_pass(text).found \o department_pass(text).found

\* A slip that lets the channel raise the priority of phone calls.
classify_request_by_channel(s, d, ch) ==
    LET text == normalize(s, d)
        r == result_of(priority_pass(text), department_pass(text))
    IN  IF ch = "Phone" /\ r.priority = "Low"
        THEN [r EXCEPT !.priority = "Medium"]
        ELSE r

classify_request(s, d, ch) ==
    LET text == normalize(s, d)
    IN  result_of(priority_pass(text), department_pass(text))

(***************************************************************************)
(* The dashboard's own copies of the two engines (app.py defines them      *)
(* again instead of importing the backend).  The built-ins they call       *)
(* (lower, in, join, slicing, min, set, index) are shared.                 *)
(***************************************************************************)
app_WORKFLOW_STATES == <<"NEW", "TRIAGE", "ASSIGNED", "IN_PROGRESS", "RESOLVED", "CLOSED">>

app_advance_workflow(current_status) ==
    IF current_status = "CLOSED" THEN "CLOSED"
    ELSE LET current_index == index(app_WORKFLOW_STATES, current_status)
         IN  IF current_index = 0 THEN "NEW"
             ELSE IF current_index < Len(app_WORKFLOW_STATES)
                  THEN app_WORKFLOW_STATES[current_index + 1]
                  ELSE "CLOSED"

\* A drift between the copies: the dashboard's Medium tier without 'fault'.
priority_keywords_without_fault ==
    << [level |-> "High",
        keywords |-> <<"urgent", "emergency", "hazard", "safety", "dangerous">>],
       [level |-> "Medium",
        keywords |-> <<"broken", "not working", "issue", "problem">>] >>

app_priority_keywords ==
    << [level |-> "High",
        keywords |-> <<"urgent", "emergency", "hazard", "safety", "dangerous">>],
       [level |-> "Medium",
        keywords |-> <<"broken", "not working", "issue", "problem", "fault">>] >>

app_department_keywords ==
    << [dept |-> "Public Works",
        keywords |-> <<"pothole", "streetlight", "sidewalk", "trash", "infrastructure",
                       "road", "street">>,
        reason |-> "Infrastructure and public works keywords detected"],
       [dept |-> "Licensing",
        keywords |-> <<"permit", "license", "zoning", "business permit", "application">>,
        reason |-> "Permit and licensing keywords detected"],
       [dept |-> "IT",
        keywords |-> <<"email", "vpn", "laptop", "password", "computer", "network",
                       "software">>,
        reason |-> "Technology and IT support keywords detected"],
       [dept |-> "HR",
        keywords |-> <<"payroll", "benefits", "vacation", "insurance", "employee", "hr">>,
        reason |-> "Human resources and employee services keywords detected"] >>

app_normalize(s, d) == lower(s \o " " \o d)

app_priority_pass(text) ==
    LET m == first_match(app_priority_keywords, text)
        reason == IF m.at = 0 THEN ""
                  ELSE "Detected " \o lower(app_priority_keywords[m.at].level)
                       \o " priority keywords: " \o join(", ", Slice(m.found, 3))
    IN  [priority |-> IF m.at = 0 THEN "Low" ELSE app_priority_keywords[m.at].level,
         found |-> m.found,
         priority_reason |->
             IF reason = ""
             THEN "No high-priority indicators found. Classified as Low priority."
             ELSE reason]

app_department_pass(text) ==
    LET m == first_match(app_department_keywords, text)
    IN  [department |-> IF m.at = 0 THEN "General Services"
                        ELSE app_department_keywords[m.at].dept,
         found |-> m.found,
         department_reason |->
             IF m.at = 0 THEN "" ELSE app_department_keywords[m.at].reason]

app_category_pass(department, department_reason) ==
    IF department = "Public Works"
    THEN [category |-> "Infrastructure", department_reason |-> department_reason]
    ELSE IF department = "Licensing"
    THEN [category |-> "Permits & Licenses", department_reason |-> department_reason]
    ELSE IF department = "IT"
    THEN [category |-> "Technology", department_reason |-> department_reason]
    ELSE IF department = "HR"
    THEN [category |-> "Human Resources", department_reason |-> department_reason]
    ELSE [category |-> "General Services",
          department_reason |->
              "No specific department keywords found. Routed to General Services."]

app_confidence_of(total_keywords) ==
    IF total_keywords >= 3 THEN min(95, 85 + (total_keywords - 3) * 2)
    ELSE IF total_keywords >= 2 THEN 75 + (total_keywords - 2) * 5
    ELSE IF total_keywords >= 1 THEN 65 + (total_keywords - 1) * 5
    ELSE 60

app_result_of(p, d) ==
    LET c == app_category_pass(d.department, d.department_reason)
    IN  [priority |-> p.priority,
         category |-> c.category,
         department |-> d.department,
         confidence |-> app_confidence_of(Len(p.found \o d.found)),
         keywords_detected |-> set(p.found \o d.found),
         department_reason |-> c.department_reason,
         priority_reason |-> p.priority_reason]

app_classify_request(s, d, ch) ==
    LET text == app_normalize(s, d)
    IN  app_result_of(app_priority_pass(text), app_department_pass(text))

(***************************************************************************)
(* Values the variables hold while their component is not running.         *)
(***************************************************************************)
NoResult ==
    [priority |-> "", category |-> "", department |-> "", confidence |-> 0,
     keywords_detected |-> {}, department_reason |-> "", priority_reason |-> ""]

WfIdle ==
    initial_status = "NEW" /\ status = "NEW" /\ prev_status = "NEW" /\ wf_calls = 0

ClIdle ==
    /\ summary = "" /\ description = "" /\ channel = "" /\ prev_channel = ""
    /\ classification = NoResult /\ previous = NoResult /\ cl_pc = "input"

UiIdle ==
    /\ requests = <<>> /\ ai_insights = <<>> /\ ai_routed_today = 0
    /\ form_message = "" /\ clicks = <<>>
    /\ classify_calls = 0 /\ submission = <<>>

(***************************************************************************)
(* The workflow engine on its own: advance_workflow applied again and      *)
(* again to a status that starts as any string, recognised or not.         *)
(***************************************************************************)
StatusInputs ==
    set(WORKFLOW_STATES) \cup
    {"closed", "Closed", "new", "bogus-status", "", "CLOSED ", "IN PROGRESS", "DONE"}

WfInit ==
    /\ initial_status \in StatusInputs
    /\ status = initial_status
    /\ prev_status = initial_status
    /\ wf_calls = 0
    /\ ClIdle /\ UiIdle

WfAdvance ==
    /\ wf_calls < MaxCalls
    /\ prev_status' = status
    /\ status' = advance_workflow(status)
    /\ wf_calls' = wf_calls + 1
    /\ UNCHANGED <<initial_status, cl_vars, ui_vars>>

WfNext == WfAdvance

WorkflowSpec == WfInit /\ [][WfNext]_vars

(***************************************************************************)
(* The classifier on its own: classify_request called on a summary and a   *)
(* description made of a few phrases, then called again on the same text.  *)
(***************************************************************************)
Channels == {"Resident Portal", "Phone", "Walk-in"}

Phrases ==
    { "Urgent pothole", "This is dangerous", "My laptop is broken",
      "not", "working", "pot", "hole",
      "urgent emergency hazard safety dangerous",
      "fault problem issue not working broken",
      "road trash sidewalk streetlight pothole infrastructure",
      "Business permit application status",
      "Health insurance benefits question" }

\* The texts made of at most n phrases, separated by single spaces.
RECURSIVE TextsUpTo(_)
TextsUpTo(n) ==
    IF n = 0 THEN {""}
    ELSE LET shorter == TextsUpTo(n - 1)
         IN  shorter \cup Phrases
                     \cup {p \o " " \o t : p \in Phrases, t \in shorter \ {""}}

\* A summary is empty or one phrase; a description is up to
\* MaxDescriptionPhrases phrases.
Summaries == {""} \cup Phrases
Descriptions == TextsUpTo(MaxDescriptionPhrases)

\* classify_request on every input of the model, evaluated once.
classify_results ==
    [s \in Summaries, d \in Descriptions, ch \in Channels |-> classify_request(s, d, ch)]

ClInit ==
    /\ summary \in Summaries
    /\ description \in Descriptions
    /\ channel = "" /\ prev_channel = ""
    /\ classification = NoResult /\ previous = NoResult /\ cl_pc = "input"
    /\ WfIdle /\ UiIdle

Classify(ch) ==
    /\ cl_pc = "input"
    /\ classification' = classify_results[summary, description, ch]
    /\ channel' = ch
    /\ cl_pc' = "classified"
    /\ UNCHANGED <<summary, description, previous, prev_channel, wf_vars, ui_vars>>

Reclassify(ch) ==
    /\ cl_pc = "classified"
    /\ previous' = classification
    /\ prev_channel' = channel
    /\ classification' = classify_results[summary, description, ch]
    /\ channel' = ch
    /\ cl_pc' = "reclassified"
    /\ UNCHANGED <<summary, description, wf_vars, ui_vars>>

\* The letters of a text written in another case: all upper, all lower, or
\* each letter swapped; "keep" leaves the text as it is.
UpperTable ==
    [c \in {SubSeq(LowerCase, i, i) : i \in 1..Len(LowerCase)} |->
        LET i == CHOOSE j \in 1..Len(LowerCase) : SubSeq(LowerCase, j, j) = c
        IN  SubSeq(UpperCase, i, i)]

SwapTable == LowerTable @@ UpperTable

RECURSIVE translate(_, _)
translate(table, s) ==
    IF Len(s) = 0 THEN ""
    ELSE IF Len(s) = 1 THEN (IF s \in DOMAIN table THEN table[s] ELSE s)
    ELSE LET half == Len(s) \div 2
         IN  translate(table, SubSeq(s, 1, half))
                 \o translate(table, SubSeq(s, half + 1, Len(s)))

recase(how, s) ==
    CASE how = "upper" -> translate(UpperTable, s)
      [] how = "lower" -> translate(LowerTable, s)
      [] how = "swapcase" -> translate(SwapTable, s)
      [] how = "keep" -> s

\* The case changes the model makes to <<summary, description>>.
CaseChanges ==
    { <<"upper", "upper">>, <<"swapcase", "lower">>, <<"keep", "swapcase">> }

\* A second call on the same text with the case of its letters changed.
Recase(how) ==
    /\ cl_pc = "classified"
    /\ summary' = recase(how[1], summary)
    /\ description' = recase(how[2], description)
    /\ previous' = classification
    /\ prev_channel' = channel
    /\ classification' = classify_request(summary', description', channel)
    /\ cl_pc' = "recased"
    /\ UNCHANGED <<channel, wf_vars, ui_vars>>

\* The positions of the spaces of a text.
Spaces(text) == {i \in 1..Len(text) : SubSeq(text, i, i) = " "}

\* A second call on the same text cut into summary and description one
\* word earlier or one word later: summary + ' ' + description is the same
\* string.
Resplit(side) ==
    /\ cl_pc = "classified"
    /\ LET text == summary \o " " \o description
           at == Len(summary) + 1
           spaces == Spaces(text)
           others == IF side = "earlier" THEN {i \in spaces : i < at}
                     ELSE {i \in spaces : i > at}
       IN  /\ others # {}
           /\ LET i == IF side = "earlier"
                        THEN CHOOSE k \in others : \A j \in others : j <= k
                        ELSE CHOOSE k \in others : \A j \in others : j >= k
              IN  /\ summary' = SubSeq(text, 1, i - 1)
                  /\ description' = SubSeq(text, i + 1, Len(text))
    /\ previous' = classification
    /\ prev_channel' = channel
    /\ classification' = classify_request(summary', description', channel)
    /\ cl_pc' = "resplit"
    /\ UNCHANGED <<channel, wf_vars, ui_vars>>

\* A second call on the same arguments, made to the dashboard's copy.
DashboardClassify ==
    /\ cl_pc = "classified"
    /\ previous' = classification
    /\ prev_channel' = channel
    /\ classification' = app_classify_request(summary, description, channel)
    /\ cl_pc' = "dashboard"
    /\ UNCHANGED <<summary, description, channel, wf_vars, ui_vars>>

ClNext ==
    \/ \E ch \in Channels : Classify(ch)
    \/ \E ch \in Channels : Reclassify(ch)
    \/ \E how \in CaseChanges : Recase(how)
    \/ \E side \in {"earlier", "later"} : Resplit(side)
    \/ DashboardClassify

ClassifySpec == ClInit /\ [][ClNext]_vars

(***************************************************************************)
(* Dashboard: the session store and the handlers that change it.           *)
(*                                                                         *)
(* datetime.now().isoformat() is abstracted to the script run that took    *)
(* the stamp: SessionStart for the run that initialises the session,       *)
(* Later for every run after it.                                           *)
(***************************************************************************)
SessionStart == "session start"
Later == "later"

SAMPLE_REQUESTS ==
    <<
       [id |-> 1, channel |-> "Resident Portal", requester_type |-> "Resident",
        summary |-> "Large pothole on Main Street",
        description |->
            "There is a large pothole on Main Street near the " \o
            "intersection with Oak Avenue. It's causing damage to " \o
            "vehicles and is a safety hazard, especially during rainy " \o
            "weather.",
        status |-> "NEW"],
       [id |-> 2, channel |-> "Phone", requester_type |-> "Resident",
        summary |-> "Streetlight not working on Elm Street",
        description |->
            "The streetlight at 123 Elm Street has been out for over a " \o
            "week. It's very dark at night and creates a safety concern " \o
            "for pedestrians and drivers.",
        status |-> "NEW"],
       [id |-> 3, channel |-> "Walk-in", requester_type |-> "Resident",
        summary |-> "Missed trash pickup on Maple Drive",
        description |->
            "Our trash was not picked up on the scheduled day (Tuesday) " \o
            "at 456 Maple Drive. The bins were out by 6 AM as required. " \o
            "This is the second time this month.",
        status |-> "NEW"],
       [id |-> 4, channel |-> "Resident Portal", requester_type |-> "Resident",
        summary |-> "Business permit application status",
        description |->
            "I submitted a business permit application for a new " \o
            "restaurant three weeks ago and haven't received any updates. " \o
            "Can you provide the current status and expected timeline?",
        status |-> "NEW"],
       [id |-> 5, channel |-> "Resident Portal", requester_type |-> "Employee",
        summary |-> "Laptop screen is broken",
        description |->
            "My work laptop screen cracked when I accidentally dropped " \o
            "it. The screen is completely black now and I cannot use the " \o
            "device. I need a replacement or repair as soon as possible.",
        status |-> "NEW"],
       [id |-> 6, channel |-> "Phone", requester_type |-> "Employee",
        summary |-> "Cannot reset password",
        description |->
            "I'm locked out of my account and the password reset link in " \o
            "my email is not working. I've tried multiple times but keep " \o
            "getting an error message. Need help accessing my account.",
        status |-> "NEW"],
       [id |-> 7, channel |-> "Resident Portal", requester_type |-> "Employee",
        summary |-> "Payroll direct deposit not received",
        description |->
            "I did not receive my direct deposit for this pay period. I " \o
            "checked my bank account and confirmed the deposit was not " \o
            "made. My employee ID is 12345.",
        status |-> "NEW"],
       [id |-> 8, channel |-> "Phone", requester_type |-> "Employee",
        summary |-> "Health insurance benefits question",
        description |->
            "I need to add my new spouse to my health insurance plan. " \o
            "What documents do I need to submit and what is the deadline " \o
            "for open enrollment changes?",
        status |-> "NEW"]
    >>

\* ServiceRequest(...) as session initialisation builds it from a sample row.
sample_request(req_data, c) ==
    [id |-> req_data.id,
     channel |-> req_data.channel,
     requester_type |-> req_data.requester_type,
     department |-> c.department,
     summary |-> req_data.summary,
     description |-> req_data.description,
     status |-> req_data.status,
     priority |-> c.priority,
     category |-> c.category,
     created_at |-> SessionStart,
     updated_at |-> SessionStart]

\* The classification of sample row k.
sample_classification(k) ==
    app_classify_request(SAMPLE_REQUESTS[k].summary, SAMPLE_REQUESTS[k].description,
                     SAMPLE_REQUESTS[k].channel)

\* The state the "if 'requests' not in st.session_state" block leaves.
\* ai_insights is a dict keyed by request id; the ids are 1..8 in row order.
UiInit ==
    /\ requests = [k \in 1..Len(SAMPLE_REQUESTS) |->
                      sample_request(SAMPLE_REQUESTS[k], sample_classification(k))]
    /\ ai_insights = [k \in {SAMPLE_REQUESTS[j].id : j \in 1..Len(SAMPLE_REQUESTS)} |->
                         sample_classification(
                             CHOOSE j \in 1..Len(SAMPLE_REQUESTS) : SAMPLE_REQUESTS[j].id = k)]
    /\ ai_routed_today = Len(SAMPLE_REQUESTS)
    /\ form_message = ""
    /\ clicks = [k \in 1..Len(SAMPLE_REQUESTS) |-> 0]
    /\ classify_calls = Len(SAMPLE_REQUESTS)
    /\ submission = <<>>
    /\ WfIdle /\ ClIdle

\* The store positions whose button the model clicks: two of the samples and
\* every request created through the form.
Clickable ==
    {k \in 1..Len(requests) : k \in {1, 5} \/ k > Len(SAMPLE_REQUESTS)}

\* The store positions whose button has been clicked at least once.
Touched == {k \in 1..Len(requests) : clicks[k] > 0}

\* A slip that counts an advance as one more routed request.
AdvanceWorkflow_counted(i) ==
    /\ i \in Clickable
    /\ clicks[i] < MaxClicks
    /\ i \in Touched \/ Cardinality(Touched) < MaxTouched
    /\ LET new_status == app_advance_workflow(requests[i].status)
       IN  requests' = [requests EXCEPT ![i].status = new_status,
                                        ![i].updated_at = Later]
    /\ clicks' = [clicks EXCEPT ![i] = @ + 1]
    /\ form_message' = ""
    /\ submission' = <<>>
    /\ ai_routed_today' = ai_routed_today + 1
    /\ UNCHANGED <<ai_insights, classify_calls, wf_vars, cl_vars>>

\* The "Advance Workflow" button of the request at position i of the store.
\* The rerun that follows redraws the page, so the form shows no message.
AdvanceWorkflow(i) ==
    /\ i \in Clickable
    /\ clicks[i] < MaxClicks
    /\ i \in Touched \/ Cardinality(Touched) < MaxTouched
    /\ LET new_status == app_advance_workflow(requests[i].status)
       IN  requests' = [requests EXCEPT ![i].status = new_status,
                                        ![i].updated_at = Later]
    /\ clicks' = [clicks EXCEPT ![i] = @ + 1]
    /\ form_message' = ""
    /\ submission' = <<>>
    /\ UNCHANGED <<ai_insights, ai_routed_today, classify_calls, wf_vars, cl_vars>>

\* A slip that numbers a new request after the first request of the store.
max_id_of_first(reqs) ==
    IF reqs = <<>> THEN 0 ELSE reqs[1].id

\* max([req.id for req in requests], default=0)
max_id(reqs) ==
    IF reqs = <<>> THEN 0
    ELSE LET ids == {reqs[k].id : k \in 1..Len(reqs)}
         IN  CHOOSE m \in ids : \A n \in ids : n <= m

\* A slip that loses the assignment.
dict_set_lost(dict, key, value) == dict

\* dict[key] = value
dict_set(dict, key, value) ==
    [k \in DOMAIN dict \cup {key} |-> IF k = key THEN value ELSE dict[k]]

\* What the form offers and what the model enters into it: the selections
\* of channel and requester type, and the two text fields.
RequesterTypes == {"Resident", "Employee"}
FormSelections ==
    { <<"Resident Portal", "Resident">>, <<"Phone", "Employee">>, <<"Walk-in", "Resident">> }
FormSummaries == {"", "Urgent pothole"}
FormDescriptions == {"", "This is dangerous"}

\* The dashboard's classify_request on what the model enters, evaluated once.
app_classify_results ==
    [s \in FormSummaries, d \in FormDescriptions, ch \in Channels |->
        app_classify_request(s, d, ch)]

\* A slip that writes "summary or description": one filled field is enough.
SubmitRequest_either(ch, requester, s, d) ==
    /\ (s # "" \/ d # "") => Len(requests) < Len(SAMPLE_REQUESTS) + MaxCreated
    /\ IF s # "" \/ d # ""
       THEN LET new_id == max_id(requests) + 1
                c == app_classify_results[s, d, ch]
                new_request ==
                    [id |-> new_id,
                     channel |-> ch,
                     requester_type |-> requester,
                     department |-> c.department,
                     summary |-> s,
                     description |-> d,
                     status |-> "NEW",
                     priority |-> c.priority,
                     category |-> c.category,
                     created_at |-> Later,
                     updated_at |-> Later]
            IN  /\ requests' = Append(requests, new_request)
                /\ ai_insights' = dict_set(ai_insights, new_id, c)
                /\ ai_routed_today' = ai_routed_today + 1
                /\ clicks' = Append(clicks, 0)
                /\ classify_calls' = classify_calls + 1
                /\ form_message' = ""
       ELSE /\ form_message' = "Please fill in both summary and description."
            /\ UNCHANGED <<requests, ai_insights, ai_routed_today, clicks,
                           classify_calls>>
    /\ submission' = <<s, d>>
    /\ UNCHANGED <<wf_vars, cl_vars>>

\* The "Submit Request" button of new_request_form.  Python's "summary and
\* description" is false exactly when one of the two strings is empty.
\* app_classify_results[s, d, ch] is the dashboard's classify_request(s, d, ch).
SubmitRequest(ch, requester, s, d) ==
    /\ (s # "" /\ d # "") => Len(requests) < Len(SAMPLE_REQUESTS) + MaxCreated
    /\ IF s # "" /\ d # ""
       THEN LET new_id == max_id(requests) + 1
                c == app_classify_results[s, d, ch]
                new_request ==
                    [id |-> new_id,
                     channel |-> ch,
                     requester_type |-> requester,
                     department |-> c.department,
                     summary |-> s,
                     description |-> d,
                     status |-> "NEW",
                     priority |-> c.priority,
                     category |-> c.category,
                     created_at |-> Later,
                     updated_at |-> Later]
            IN  /\ requests' = Append(requests, new_request)
                /\ ai_insights' = dict_set(ai_insights, new_id, c)
                /\ ai_routed_today' = ai_routed_today + 1
                /\ clicks' = Append(clicks, 0)
                /\ classify_calls' = classify_calls + 1
                /\ form_message' = ""
       ELSE /\ form_message' = "Please fill in both summary and description."
            /\ UNCHANGED <<requests, ai_insights, ai_routed_today, clicks,
                           classify_calls>>
    /\ submission' = <<s, d>>
    /\ UNCHANGED <<wf_vars, cl_vars>>

Next ==
    \/ \E i \in 1..Len(requests) : AdvanceWorkflow(i)
    \/ \E sel \in FormSelections, s \in FormSummaries, d \in FormDescriptions :
          SubmitRequest(sel[1], sel[2], s, d)

Spec == UiInit /\ [][Next]_vars

\* The dashboard with a user who keeps clicking: an Advance Workflow button
\* that stays available is eventually clicked.
FairSpec ==
    Spec /\ \A i \in 1..(Len(SAMPLE_REQUESTS) + MaxCreated) : WF_vars(AdvanceWorkflow(i))

(***************************************************************************)
(* Properties of the workflow engine.                                      *)
(***************************************************************************)
WorkflowStates == set(WORKFLOW_STATES)

\* C1: each of the five non-terminal states advances to exactly the next state
\* of the order NEW, TRIAGE, ASSIGNED, IN_PROGRESS, RESOLVED, CLOSED.
C1_AdvanceNext ==
    wf_calls > 0 =>
        /\ prev_status = "NEW" => status = "TRIAGE"
        /\ prev_status = "TRIAGE" => status = "ASSIGNED"
        /\ prev_status = "ASSIGNED" => status = "IN_PROGRESS"
        /\ prev_status = "IN_PROGRESS" => status = "RESOLVED"
        /\ prev_status = "RESOLVED" => status = "CLOSED"

\* A status that started at NEW has walked the whole order in five calls.
C1_Witness ==
    /\ initial_status = "NEW" /\ wf_calls = 5
    /\ prev_status = "RESOLVED" /\ status = "CLOSED"

\* C2: CLOSED is absorbing: no step of the dashboard takes a request whose
\* status is CLOSED to any other status, however often it is advanced.
C2_ClosedAbsorbing ==
    [][\A i \in 1..Len(requests) :
          requests[i].status = "CLOSED" => requests'[i].status = "CLOSED"]_vars

\* A request was advanced once more after it had reached CLOSED.
C2_Witness ==
    \E i \in 1..Len(requests) : requests[i].status = "CLOSED" /\ clicks[i] > 5

\* C3: an input that is none of the six workflow states yields NEW, and the
\* result of every call is one of the six workflow states.
C3_UnknownToNew ==
    wf_calls > 0 =>
        /\ prev_status \notin WorkflowStates => status = "NEW"
        /\ status \in WorkflowStates

\* The wrong-case spelling 'closed' was advanced and came back as NEW.
C3_Witness ==
    wf_calls = 1 /\ prev_status = "closed" /\ status = "NEW"

(***************************************************************************)
(* Properties of the classifier.                                           *)
(***************************************************************************)
Priorities == {"High", "Medium", "Low"}
Departments == {"Public Works", "Licensing", "IT", "HR", "General Services"}

\* The keywords of the priority tier, or of the department, of that name.
TierKeywords(level) ==
    UNION {set(priority_keywords[i].keywords) :
              i \in {j \in 1..Len(priority_keywords) : priority_keywords[j].level = level}}

DeptKeywords(dept) ==
    UNION {set(department_keywords[i].keywords) :
              i \in {j \in 1..Len(department_keywords) : department_keywords[j].dept = dept}}

AllKeywords ==
    UNION {TierKeywords(level) : level \in Priorities}
        \cup UNION {DeptKeywords(dept) : dept \in Departments}

\* The keywords that occur in the normalized text of each input of the model,
\* evaluated once.
occurring ==
    [s \in Summaries, d \in Descriptions |->
        LET text == normalize(s, d)
        IN  {kw \in AllKeywords : Contains(kw, text)}]

\* The keywords of a tier, or of a department, that occur in the current text.
TierHits(level) == occurring[summary, description] \cap TierKeywords(level)
DeptHits(dept) == occurring[summary, description] \cap DeptKeywords(dept)

\* The last call was made on an input of the tables above.
Classified == cl_pc \in {"classified", "reclassified"}

\* C4: every result has priority in {High, Medium, Low}, department among the
\* five departments, and an integer confidence between 60 and 95.
C4_ResultRanges ==
    Classified =>
        /\ classification.priority \in Priorities
        /\ classification.department \in Departments
        /\ classification.confidence \in 60..95

\* All five High keywords and all seven Public Works keywords matched (n = 12)
\* and the confidence is the cap.
C4_Witness ==
    /\ Classified
    /\ Cardinality(TierHits("High")) = 5
    /\ Cardinality(DeptHits("Public Works")) = 7
    /\ classification.confidence = 95

\* C5: priority is High when a High keyword occurs in the text, otherwise
\* Medium when a Medium keyword occurs, otherwise Low.
C5_PriorityOrder ==
    Classified =>
        classification.priority =
            IF TierHits("High") # {} THEN "High"
            ELSE IF TierHits("Medium") # {} THEN "Medium"
            ELSE "Low"

\* The text holds keywords of both tiers and the result is High.
C5_Witness ==
    /\ Classified
    /\ TierHits("High") # {} /\ TierHits("Medium") # {}
    /\ classification.priority = "High"

\* C6: department is the first of Public Works, Licensing, IT, HR with a
\* keyword in the text, and General Services when none has one.
C6_DepartmentOrder ==
    Classified =>
        classification.department =
            IF DeptHits("Public Works") # {} THEN "Public Works"
            ELSE IF DeptHits("Licensing") # {} THEN "Licensing"
            ELSE IF DeptHits("IT") # {} THEN "IT"
            ELSE IF DeptHits("HR") # {} THEN "HR"
            ELSE "General Services"

\* The text holds keywords of Licensing and of IT and is routed to Licensing.
C6_Witness ==
    /\ Classified
    /\ DeptHits("Licensing") # {} /\ DeptHits("IT") # {}
    /\ classification.department = "Licensing"

\* C7: (department, category, department_reason) is one of five fixed rows.
DepartmentRows ==
    { <<"Public Works", "Infrastructure",
        "Infrastructure and public works keywords detected">>,
      <<"Licensing", "Permits & Licenses",
        "Permit and licensing keywords detected">>,
      <<"IT", "Technology",
        "Technology and IT support keywords detected">>,
      <<"HR", "Human Resources",
        "Human resources and employee services keywords detected">>,
      <<"General Services", "General Services",
        "No specific department keywords found. Routed to General Services.">> }

C7_DepartmentRows ==
    Classified =>
        <<classification.department, classification.category,
          classification.department_reason>> \in DepartmentRows

\* A text without department keywords got the General Services row.
C7_Witness ==
    /\ Classified
    /\ \A dept \in Departments : DeptHits(dept) = {}
    /\ classification.department = "General Services"
    /\ classification.category = "General Services"

\* The number of accumulated matched keywords: those of the winning tier plus
\* those of the winning department, each list counted on its own.
MatchCount ==
    Cardinality(TierHits(classification.priority))
        + Cardinality(DeptHits(classification.department))

\* C8: confidence is 60, 65, 75 for n = 0, 1, 2 and min(95, 85 + (n-3)*2) for
\* n >= 3, where n is the number of accumulated matched keywords.
C8_ConfidenceSteps ==
    Classified =>
        classification.confidence =
            IF MatchCount = 0 THEN 60
            ELSE IF MatchCount = 1 THEN 65
            ELSE IF MatchCount = 2 THEN 75
            ELSE IF 85 + (MatchCount - 3) * 2 < 95 THEN 85 + (MatchCount - 3) * 2
            ELSE 95

\* Two keywords matched and the confidence is 75.
C8_Witness ==
    Classified /\ MatchCount = 2 /\ classification.confidence = 75

\* C9: an empty summary with an empty description yields all defaults.
C9_EmptyDefaults ==
    (Classified /\ summary = "" /\ description = "") =>
        classification =
            [priority |-> "Low",
             category |-> "General Services",
             department |-> "General Services",
             confidence |-> 60,
             keywords_detected |-> {},
             department_reason |->
                 "No specific department keywords found. Routed to General Services.",
             priority_reason |->
                 "No high-priority indicators found. Classified as Low priority."]

\* The empty request was classified.
C9_Witness ==
    /\ cl_pc = "classified" /\ summary = "" /\ description = ""
    /\ classification.confidence = 60

\* C10: a second call on the same summary and description returns the same
\* result in every field, whatever the channels of the two calls.
C10_ChannelIndependent ==
    cl_pc = "reclassified" => classification = previous

\* The same text was classified through two different channels.
C10_Witness ==
    /\ cl_pc = "reclassified"
    /\ prev_channel = "Walk-in" /\ channel = "Phone"
    /\ classification.priority = "Low"

C12_StatusLifecycle ==
    /\ \A i \in 1..Len(requests) : requests[i].status = "NEW"
    /\ [](\A i \in 1..Len(requests) : requests[i].status \in WorkflowStates)
    /\ [][\A i \in 1..Len(requests') :
              IF i <= Len(requests)
              THEN \/ requests'[i].status = requests[i].status
                   \/ requests'[i].status = advance_workflow(requests[i].status)
              ELSE requests'[i].status = "NEW"]_vars

\* A request created through the form has been advanced to IN_PROGRESS.
C12_Witness ==
    /\ Len(requests) > Len(SAMPLE_REQUESTS)
    /\ requests[Len(requests)].status = "IN_PROGRESS"
    /\ clicks[Len(requests)] = 3

\* The ids of the store, and the largest of them (0 for an empty store).
Ids(reqs) == {reqs[k].id : k \in 1..Len(reqs)}
LargestId(reqs) ==
    IF Ids(reqs) = {} THEN 0 ELSE CHOOSE m \in Ids(reqs) : \A n \in Ids(reqs) : n <= m

\* C13: the ids of the store are pairwise distinct positive integers, a new
\* request gets the largest existing id (0 for an empty store) plus one, and
\* no step changes the id of a request already in the store.
C13_UniqueIds ==
    /\ [](/\ \A i \in 1..Len(requests) : requests[i].id \in Nat \ {0}
          /\ \A i, j \in 1..Len(requests) :
                 i # j => requests[i].id # requests[j].id)
    /\ [][/\ Len(requests') >= Len(requests)
          /\ \A i \in 1..Len(requests) : requests'[i].id = requests[i].id
          /\ \A i \in (Len(requests) + 1)..Len(requests') :
                 requests'[i].id = LargestId(requests) + 1]_vars

\* The form appended a ninth request, numbered 9, after a sample was advanced.
C13_Witness ==
    /\ Len(requests) = Len(SAMPLE_REQUESTS) + 1
    /\ requests[Len(requests)].id = Len(SAMPLE_REQUESTS) + 1
    /\ \E i \in 1..Len(SAMPLE_REQUESTS) : clicks[i] > 0 /\ requests[i].id = i

\* The position of a workflow state in the order NEW .. CLOSED (1 .. 6).
Position(st) ==
    CHOOSE k \in 1..6 :
        <<"NEW", "TRIAGE", "ASSIGNED", "IN_PROGRESS", "RESOLVED", "CLOSED">>[k] = st

\* C14: the lifecycle is linear and finite: every advance of a request that
\* is not CLOSED moves it exactly one position forward (no skip, no step
\* back), a request that started at NEW is CLOSED after exactly five advances
\* and not before, and a request whose button keeps being clicked eventually
\* reaches CLOSED: once requests have been clicked, a state follows in which
\* every clicked request is CLOSED (a clicked request stays a clicked one).
C14_LinearLifecycle ==
    /\ [](\A i \in 1..Len(requests) :
             Position(requests[i].status) = (IF clicks[i] < 5 THEN clicks[i] ELSE 5) + 1)
    /\ [][\A i \in 1..Len(requests) :
             (clicks'[i] # clicks[i] /\ requests[i].status # "CLOSED") =>
                 Position(requests'[i].status) = Position(requests[i].status) + 1]_vars
    /\ (Touched # {}) ~> (\A i \in Touched : requests[i].status = "CLOSED")

\* A request created through the form is CLOSED after exactly five clicks.
C14_Witness ==
    /\ Len(requests) > Len(SAMPLE_REQUESTS)
    /\ clicks[Len(requests)] = 5
    /\ requests[Len(requests)].status = "CLOSED"
    /\ requests[Len(requests)].created_at = Later

(***************************************************************************)
(* More properties of the classifier.                                      *)
(***************************************************************************)
\* C15: keywords_detected is exactly the keywords of the winning priority
\* tier that occur in the text together with the keywords of the winning
\* department that occur in it, and holds no keyword of a tier or department
\* that did not win.
C15_WinnersOnly ==
    Classified =>
        /\ classification.keywords_detected =
               TierHits(classification.priority) \cup DeptHits(classification.department)
        /\ \A level \in Priorities \ {classification.priority} :
               classification.keywords_detected \cap TierKeywords(level) = {}
        /\ \A dept \in Departments \ {classification.department} :
               classification.keywords_detected \cap DeptKeywords(dept) = {}

\* High won on 'dangerous'; 'broken' of the Medium tier occurs in the text
\* and was not reported.
C15_Witness ==
    /\ Classified
    /\ classification.priority = "High"
    /\ "broken" \in TierHits("Medium")
    /\ classification.keywords_detected = {"dangerous", "laptop"}

\* The keywords of a tier in the order of its table row, those that occur in
\* the current text, and the first three of a list written with ', '.
TierRow(level) ==
    IF level = "High" THEN <<"urgent", "emergency", "hazard", "safety", "dangerous">>
    ELSE <<"broken", "not working", "issue", "problem", "fault">>

TierMatches(level) ==
    SelectSeq(TierRow(level), LAMBDA kw : kw \in occurring[summary, description])

FirstThree(list) ==
    IF Len(list) = 1 THEN list[1]
    ELSE IF Len(list) = 2 THEN list[1] \o ", " \o list[2]
    ELSE list[1] \o ", " \o list[2] \o ", " \o list[3]

\* C16: when a tier matches, priority_reason is 'Detected <tier in lowercase>
\* priority keywords: ' followed by the first min(3, k) of the k matched
\* keywords in the order of the tier's table row, joined by ', '; when no
\* tier matches it is the fixed Low sentence; it is never empty.
C16_PriorityReason ==
    Classified =>
        /\ classification.priority_reason =
               IF TierMatches("High") # <<>>
               THEN "Detected high priority keywords: " \o FirstThree(TierMatches("High"))
               ELSE IF TierMatches("Medium") # <<>>
               THEN "Detected medium priority keywords: "
                        \o FirstThree(TierMatches("Medium"))
               ELSE "No high-priority indicators found. Classified as Low priority."
        /\ classification.priority_reason # ""

\* All five Medium keywords occur, in the text in the reverse of the table
\* order, and the reason names the first three of the table row.
C16_Witness ==
    /\ Classified
    /\ summary = "fault problem issue not working broken" /\ description = ""
    /\ Len(TierMatches("Medium")) = 5
    /\ classification.priority_reason =
           "Detected medium priority keywords: broken, not working, issue"

(***************************************************************************)
(* More properties of the dashboard store.                                 *)
(***************************************************************************)
\* The fields of a request that an advance has to leave alone.
KeptFields ==
    {"id", "summary", "description", "channel", "requester_type", "department",
     "category", "priority", "created_at"}

\* C17: the step that advances the request at position i changes only that
\* request's status and updated_at: its other fields, every other request,
\* ai_insights and ai_routed_today are unchanged, and no request is added or
\* removed.
C17_AdvanceFrame ==
    [][\A i \in 1..Len(requests) :
          (Len(clicks') = Len(clicks) /\ clicks'[i] # clicks[i]) =>
              /\ Len(requests') = Len(requests)
              /\ DOMAIN requests'[i] = DOMAIN requests[i]
              /\ \A f \in KeptFields : requests'[i][f] = requests[i][f]
              /\ \A j \in 1..Len(requests) : j # i => requests'[j] = requests[j]
              /\ ai_insights' = ai_insights
              /\ ai_routed_today' = ai_routed_today]_vars

\* Sample request 5 was advanced twice after the form had appended a ninth
\* request: its status and updated_at changed, its classification did not.
C17_Witness ==
    /\ Len(requests) = Len(SAMPLE_REQUESTS) + 1
    /\ clicks[5] = 2
    /\ requests[5].status = "ASSIGNED" /\ requests[5].updated_at = Later
    /\ requests[5].created_at = SessionStart /\ requests[5].priority = "Medium"
    /\ ai_routed_today = Len(requests)

\* C18: a Submit Request click with an empty summary or an empty description
\* shows the error message and leaves the store as it was: no request
\* appended, no ai_insights entry, ai_routed_today not incremented,
\* classify_request not called.  A click with both fields filled appends
\* exactly one request, whose department, priority and category are those of
\* the classification of its summary and description.
C18_FormValidation ==
    [][submission' # <<>> =>
          IF submission'[1] = "" \/ submission'[2] = ""
          THEN /\ form_message' = "Please fill in both summary and description."
               /\ requests' = requests
               /\ ai_insights' = ai_insights
               /\ ai_routed_today' = ai_routed_today
               /\ classify_calls' = classify_calls
          ELSE /\ Len(requests') = Len(requests) + 1
               /\ SubSeq(requests', 1, Len(requests)) = requests
               /\ classify_calls' = classify_calls + 1
               /\ LET new == requests'[Len(requests')]
                      c == classify_results[new.summary, new.description, new.channel]
                  IN  /\ new.summary = submission'[1]
                      /\ new.description = submission'[2]
                      /\ new.department = c.department
                      /\ new.priority = c.priority
                      /\ new.category = c.category]_vars

\* After a request had been created, a submission with a summary and no
\* description was rejected.
C18_Witness ==
    /\ submission = <<"Urgent pothole", "">>
    /\ form_message = "Please fill in both summary and description."
    /\ Len(requests) = Len(SAMPLE_REQUESTS) + 1
    /\ requests[Len(requests)].department = "Public Works"
    /\ requests[Len(requests)].priority = "High"
    /\ classify_calls = Len(requests)

(***************************************************************************)
(* Properties of the text the classifier matches against.                  *)
(***************************************************************************)
\* C19: the result depends only on summary + ' ' + description: a call on
\* another summary and description with the same concatenation returns the
\* same result in every field; 'not' and 'working' on the two sides of the
\* boundary match 'not working'; 'pot' and 'hole' on its two sides do not
\* match 'pothole'.
C19_OneText ==
    /\ cl_pc = "resplit" => classification = previous
    /\ (Classified /\ summary = "not" /\ description = "working") =>
           "not working" \in classification.keywords_detected
    /\ (Classified /\ summary = "pot" /\ description = "hole") =>
           "pothole" \notin classification.keywords_detected

\* The text was cut one word earlier, which moved 'dangerous' from the
\* summary to the description, and the result is the same.
C19_Witness ==
    /\ cl_pc = "resplit"
    /\ summary = "This is" /\ description = "dangerous My laptop is broken"
    /\ classification.keywords_detected = {"dangerous", "laptop"}
    /\ classification.priority = "High"

(***************************************************************************)
(* The two copies of each engine.                                          *)
(***************************************************************************)
\* The two copies of advance_workflow on every status input, including the
\* unrecognised ones.
WorkflowCopiesAgree ==
    \A st \in StatusInputs : app_advance_workflow(st) = advance_workflow(st)

\* C20: the dashboard's copies are equivalent to the backend's: for every
\* status the two advance_workflow return the same status, and for every
\* summary, description and channel the two classify_request return results
\* equal in every field.
C20_CopiesEquivalent ==
    /\ WorkflowCopiesAgree
    /\ cl_pc = "dashboard" => classification = previous

\* Both copies classified a text with all five Medium keywords.
C20_Witness ==
    /\ cl_pc = "dashboard"
    /\ summary = "fault problem issue not working broken"
    /\ description = "My laptop is broken"
    /\ classification.keywords_detected =
           {"fault", "problem", "issue", "not working", "broken", "laptop"}
    /\ previous.confidence = 91

(***************************************************************************)
(* Properties that follow from the rule tables.                            *)
(***************************************************************************)
\* Every row of the two tables lists distinct keywords, and no keyword of a
\* priority row is a keyword of a department row.
RowsDistinct ==
    /\ \A r \in set(priority_keywords) \cup
                 {[level |-> row.dept, keywords |-> row.keywords] :
                     row \in set(department_keywords)} :
           Cardinality(set(r.keywords)) = Len(r.keywords)
    /\ \A p \in set(priority_keywords), d \in set(department_keywords) :
           set(p.keywords) \cap set(d.keywords) = {}

\* C21: the accumulated keyword list never holds a duplicate: the count n
\* that confidence is computed from is the length of a list whose entries
\* are pairwise distinct, so n equals the number of elements of the
\* returned keywords_detected and set() removes nothing.
C21_NoDuplicates ==
    /\ RowsDistinct
    /\ cl_pc = "classified" =>
           LET list == keywords_accumulated(normalize(summary, description))
           IN  /\ \A i, j \in 1..Len(list) : i # j => list[i] # list[j]
               /\ Len(list) = Cardinality(classification.keywords_detected)
               /\ set(list) = classification.keywords_detected
               /\ classification.confidence = confidence_of(Len(list))

\* Twelve keywords were accumulated, five of a tier and seven of a
\* department, and twelve were returned.
C21_Witness ==
    /\ cl_pc = "classified"
    /\ Len(keywords_accumulated(normalize(summary, description))) = 12
    /\ Cardinality(classification.keywords_detected) = 12
    /\ classification.priority = "High"
    /\ classification.department = "Public Works"

(***************************************************************************)
(* The dashboard's counters and insights against its store.                *)
(***************************************************************************)
\* C22: ai_routed_today is the number of requests of the store, and
\* ai_insights has exactly one entry per request, keyed by the request's id,
\* whose priority, department and category are those stored on the request.
C22_InsightsMatchStore ==
    /\ ai_routed_today = Len(requests)
    /\ DOMAIN ai_insights = {requests[i].id : i \in 1..Len(requests)}
    /\ Cardinality(DOMAIN ai_insights) = Len(requests)
    /\ \A i \in 1..Len(requests) :
           /\ ai_insights[requests[i].id].priority = requests[i].priority
           /\ ai_insights[requests[i].id].department = requests[i].department
           /\ ai_insights[requests[i].id].category = requests[i].category

\* A ninth request was created and then advanced to CLOSED; its insight
\* entry still matches it.
C22_Witness ==
    /\ Len(requests) = Len(SAMPLE_REQUESTS) + 1
    /\ ai_routed_today = Len(SAMPLE_REQUESTS) + 1
    /\ requests[Len(requests)].status = "CLOSED"
    /\ ai_insights[requests[Len(requests)].id].department = "Public Works"
    /\ ai_insights[requests[Len(requests)].id].priority = "High"

(***************************************************************************)
(* Confidence against what was matched.                                    *)
(***************************************************************************)
\* <<number of keywords returned, confidence>> of every result the classifier
\* gives on the inputs of the model, evaluated once.
ResultPairs ==
    {<<Cardinality(classify_results[x].keywords_detected),
       classify_results[x].confidence>> : x \in DOMAIN classify_results}

\* C23: confidence is 60 exactly when keywords_detected is empty, which is
\* exactly when priority is Low and department is General Services; a result
\* with priority High or Medium, or with another department, has confidence
\* at least 65; and a result with more matched keywords than another never
\* has the lower confidence of the two.
C23_ConfidenceFloor ==
    Classified =>
        LET n == Cardinality(classification.keywords_detected)
        IN  /\ classification.confidence = 60 <=> n = 0
            /\ n = 0 <=> (/\ classification.priority = "Low"
                          /\ classification.department = "General Services")
            /\ (\/ classification.priority \in {"High", "Medium"}
                \/ classification.department # "General Services") =>
                   classification.confidence >= 65
            /\ \A other \in ResultPairs :
                   /\ other[1] > n => other[2] >= classification.confidence
                   /\ other[1] < n => other[2] <= classification.confidence

\* One High keyword and no department keyword: General Services at 65, among
\* results with from zero to twelve keywords.
C23_Witness ==
    /\ Classified
    /\ classification.priority = "High"
    /\ classification.department = "General Services"
    /\ classification.confidence = 65
    /\ {0, 1, 2, 3, 5, 12} \subseteq {pair[1] : pair \in ResultPairs}

====
